---- MODULE Spec2Model ----
(***************************************************************************)
(* Beach Safety API (src/app.py): the /ask and /chat request handlers, the *)
(* five outbound providers they call, the safety classifier and the beach  *)
(* name resolver.                                                          *)
(*                                                                         *)
(* Python strings are sequences of one-character strings, so that lower(), *)
(* replace(), strip(), split()/join(), title() and `in` are computed on    *)
(* characters.  JSON / Python values are records tagged by field t:        *)
(*   [t |-> "none"]  None / JSON null        [t |-> "num", v |-> n]        *)
(*   [t |-> "str", s |-> chars]              [t |-> "list"]  a JSON array  *)
(***************************************************************************)
EXTENDS Integers, Sequences, FiniteSets, TLC

VARIABLES
    method, route, body,     \* the inbound request
    key,                     \* GROQ_API_KEY
    pc, inflight, calls,     \* handler position, call awaited, calls issued
    got,                     \* what each collaborator answered in this request
    beach, question, lat, lon, weather, alert, verdict, details, text,
    response,                \* what the handler returned
    arg, ret                 \* argument / results of a function applied alone

reqVars == <<method, route, body, key, pc, inflight, calls, got, beach, question,
             lat, lon, weather, alert, verdict, details, text, response>>
vars == <<reqVars, arg, ret>>

-----------------------------------------------------------------------------
(* Characters and Python string methods *)

LowerLetters == <<"a","b","c","d","e","f","g","h","i","j","k","l","m",
                  "n","o","p","q","r","s","t","u","v","w","x","y","z">>
UpperLetters == <<"A","B","C","D","E","F","G","H","I","J","K","L","M",
                  "N","O","P","Q","R","S","T","U","V","W","X","Y","Z">>
Whitespace == {" ", "\t", "\n"}

IsLetter(c) == \E i \in 1..26 : LowerLetters[i] = c \/ UpperLetters[i] = c

LowerCh(c) ==
    IF \E i \in 1..26 : UpperLetters[i] = c
    THEN LowerLetters[CHOOSE i \in 1..26 : UpperLetters[i] = c]
    ELSE c

UpperCh(c) ==
    IF \E i \in 1..26 : LowerLetters[i] = c
    THEN UpperLetters[CHOOSE i \in 1..26 : LowerLetters[i] = c]
    ELSE c

\* str.lower()
Lower(s) == [i \in 1..Len(s) |-> LowerCh(s[i])]

\* str.upper()
Upper(s) == [i \in 1..Len(s) |-> UpperCh(s[i])]

\* str.title(): a letter that follows a non-letter is upper-cased, any other
\* letter lower-cased
Title(s) ==
    [i \in 1..Len(s) |->
        IF i = 1 \/ ~IsLetter(s[i-1]) THEN UpperCh(s[i]) ELSE LowerCh(s[i])]

\* w occurs in s at position i
StartsAt(s, w, i) ==
    /\ i + Len(w) - 1 <= Len(s)
    /\ \A j \in 1..Len(w) : s[i + j - 1] = w[j]

\* `w in s`
Contains(s, w) == \E i \in 1..(Len(s) - Len(w) + 1) : StartsAt(s, w, i)

\* s.replace(w, ""): the non-overlapping occurrences, left to right
RECURSIVE RemoveFrom(_, _, _)
RemoveFrom(s, w, i) ==
    IF i > Len(s) THEN <<>>
    ELSE IF StartsAt(s, w, i) THEN RemoveFrom(s, w, i + Len(w))
    ELSE <<s[i]>> \o RemoveFrom(s, w, i + 1)

Remove(s, w) == RemoveFrom(s, w, 1)

\* str.strip()
RECURSIVE LStrip(_)
LStrip(s) ==
    IF s # <<>> /\ Head(s) \in Whitespace THEN LStrip(Tail(s)) ELSE s

RECURSIVE RStrip(_)
RStrip(s) ==
    IF s # <<>> /\ s[Len(s)] \in Whitespace
    THEN RStrip(SubSeq(s, 1, Len(s) - 1)) ELSE s

Strip(s) == RStrip(LStrip(s))

\* str.split(): the maximal runs of non-whitespace characters
RECURSIVE SplitFrom(_, _, _)
SplitFrom(s, i, cur) ==
    IF i > Len(s) THEN (IF cur = <<>> THEN <<>> ELSE <<cur>>)
    ELSE IF s[i] \in Whitespace
         THEN (IF cur = <<>> THEN <<>> ELSE <<cur>>) \o SplitFrom(s, i + 1, <<>>)
         ELSE SplitFrom(s, i + 1, Append(cur, s[i]))

Split(s) == SplitFrom(s, 1, <<>>)

\* " ".join(words)
RECURSIVE Join(_)
Join(words) ==
    IF words = <<>> THEN <<>>
    ELSE IF Len(words) = 1 THEN words[1]
    ELSE words[1] \o <<" ">> \o Join(Tail(words))

\* text.split(".")[0]
RECURSIVE FirstSentence(_)
FirstSentence(s) ==
    IF s = <<>> \/ Head(s) = "." THEN <<>>
    ELSE <<Head(s)>> \o FirstSentence(Tail(s))

-----------------------------------------------------------------------------
(* Beach name resolver of /ask *)

Beach == <<"b","e","a","c","h">>

\* the list of line 197, in its order
StopWords == <<
    <<"s","a","f","e","t","y">>,
    <<"r","u","l","e","s">>,
    <<"r","e","g","u","l","a","t","i","o","n","s">>,
    <<"g","u","i","d","e","l","i","n","e","s">>,
    <<"h","o","t","s","p","o","t","s">>,
    <<"w","h","a","t">>,
    <<"i","s">>,
    <<"a","r","e">>,
    <<"t","h","e">>,
    <<"a","b","o","u","t">>,
    <<"t","e","l","l">>,
    <<"m","e">> >>

\* msg if "beach" in msg else f"{msg} beach"
WithBeach(msg) == IF Contains(msg, Beach) THEN msg ELSE msg \o <<" ">> \o Beach

\* for word in [...]: beach = beach.replace(word, "").strip()
RECURSIVE StripWords(_, _)
StripWords(b, words) ==
    IF words = <<>> THEN b
    ELSE StripWords(Strip(Remove(b, Head(words))), Tail(words))

\* lines 193-199: question -> beach
ResolveBeach(q) == Join(Split(StripWords(WithBeach(Lower(q)), StopWords)))

-----------------------------------------------------------------------------
(* Python values *)

None == [t |-> "none"]
Absent == [t |-> "absent"]            \* a key the JSON object does not have
Num(n) == [t |-> "num", v |-> n]
Str(s) == [t |-> "str", s |-> s]
List(n) == [t |-> "list", n |-> n]    \* a JSON array of n elements
NaN == [t |-> "nan"]

\* bool(v), as `if v` / `not v` / `x if v else y` take it
Truthy(v) ==
    CASE v.t = "none" -> FALSE
      [] v.t = "num"  -> v.v # 0
      [] v.t = "str"  -> v.s # <<>>
      [] v.t = "list" -> v.n > 0
      [] v.t = "obj"  -> v.field.t # "absent"
      [] OTHER        -> TRUE

Digits == <<"0","1","2","3","4","5","6","7","8","9">>
IsDigit(c) == \E i \in 1..10 : Digits[i] = c
DigitVal(c) == (CHOOSE i \in 1..10 : Digits[i] = c) - 1

RECURSIVE DigitsVal(_, _)
DigitsVal(s, acc) ==
    IF s = <<>> THEN acc ELSE DigitsVal(Tail(s), 10 * acc + DigitVal(Head(s)))

\* float(v): a number is itself; a string is stripped and read as an optional
\* sign and digits, or as "nan" in any case; anything else raises (t = "raise").
\* Numbers are whole in this model; coordinates are held in 1e-4 degrees.
Float(v) ==
    CASE v.t = "num" -> v
      [] v.t = "nan" -> v
      [] v.t = "str" ->
            LET s == Strip(v.s)
                d == IF s # <<>> /\ Head(s) \in {"-", "+"} THEN Tail(s) ELSE s
            IN  IF Lower(s) = <<"n","a","n">> THEN NaN
                ELSE IF d # <<>> /\ \A i \in 1..Len(d) : IsDigit(d[i])
                THEN Num(IF Head(s) = "-" THEN 0 - DigitsVal(d, 0)
                                          ELSE DigitsVal(d, 0))
                ELSE [t |-> "raise"]
      [] OTHER -> [t |-> "raise"]

Take(s, n) == SubSeq(s, 1, IF Len(s) < n THEN Len(s) ELSE n)

-----------------------------------------------------------------------------
(* Static coordinates and geocoding *)

MarinaBeach == <<"m","a","r","i","n","a"," ","b","e","a","c","h">>
KovalamBeach == <<"k","o","v","a","l","a","m"," ","b","e","a","c","h">>
GoaBeach == <<"g","o","a"," ","b","e","a","c","h">>
PuriBeach == <<"p","u","r","i"," ","b","e","a","c","h">>

\* BEACH_COORDS, in 1e-4 degrees
BEACH_COORDS ==
    [b \in {MarinaBeach, KovalamBeach, GoaBeach, PuriBeach} |->
        CASE b = MarinaBeach  -> <<Num(130500), Num(802824)>>
          [] b = KovalamBeach -> <<Num(84000), Num(769780)>>
          [] b = GoaBeach     -> <<Num(152993), Num(741240)>>
          [] b = PuriBeach    -> <<Num(197983), Num(858245)>>]

\* get_coordinates: the answer of the geocoding service -> (lat, lon).
\* resp is [t |-> "exc"] (requests.get or .json() raised) or
\* [t |-> "ok", r |-> the JSON array of results].
get_coordinates(resp) ==
    IF resp.t = "exc" THEN <<None, None>>
    ELSE IF resp.r = <<>> THEN <<None, None>>
    ELSE LET la == IF resp.r[1].lat.t = "absent" THEN [t |-> "raise"]
                   ELSE Float(resp.r[1].lat)
             lo == IF resp.r[1].lon.t = "absent" THEN [t |-> "raise"]
                   ELSE Float(resp.r[1].lon)
         IN  IF la.t = "raise" \/ lo.t = "raise" THEN <<None, None>>
             ELSE <<la, lo>>

\* BEACH_COORDS.get(beach, geo): geo has been computed by the caller
Lookup(b, geo) == IF b \in DOMAIN BEACH_COORDS THEN BEACH_COORDS[b] ELSE geo

-----------------------------------------------------------------------------
(* Weather *)

NA == Str(<<"N","/","A">>)
AllNA == [temp |-> NA, wind |-> NA, min |-> NA, max |-> NA]

\* get_weather with a fallback per field instead of one for the whole read
get_weather_PerField(resp) ==
    IF resp.t = "exc" THEN AllNA
    ELSE [temp |-> IF resp.d.temperature.t = "absent" THEN NA
                   ELSE resp.d.temperature,
          wind |-> IF resp.d.windspeed.t = "absent" THEN NA
                   ELSE resp.d.windspeed,
          min |-> IF resp.d.tmin = <<>> THEN NA ELSE resp.d.tmin[1],
          max |-> IF resp.d.tmax = <<>> THEN NA ELSE resp.d.tmax[1]]

\* get_weather: resp is [t |-> "exc"] or [t |-> "ok", d |-> the JSON object],
\* d holding current_weather.temperature, current_weather.windspeed (Absent
\* when the key or its parent is missing) and the two daily lists.
get_weather(resp) ==
    IF resp.t = "exc" THEN AllNA
    ELSE IF \/ resp.d.temperature.t = "absent"
            \/ resp.d.windspeed.t = "absent"
            \/ resp.d.tmin = <<>>
            \/ resp.d.tmax = <<>>
    THEN AllNA
    ELSE [temp |-> resp.d.temperature, wind |-> resp.d.windspeed,
          min |-> resp.d.tmin[1], max |-> resp.d.tmax[1]]

-----------------------------------------------------------------------------
(* Alert bulletin *)

Warning == <<"W","A","R","N","I","N","G">>

\* has_alert that treats a failed fetch as an alert
has_alert_FailClosed(resp) ==
    IF resp.t = "exc" THEN TRUE ELSE Contains(Upper(resp.text), Warning)

\* has_alert: resp is [t |-> "exc"] or [t |-> "ok", text |-> the page]
has_alert(resp) ==
    IF resp.t = "exc" THEN FALSE ELSE Contains(Upper(resp.text), Warning)

-----------------------------------------------------------------------------
(* Safety classifier *)

WindLimit == 12
Marina == <<"m","a","r","i","n","a">>

\* try: wind = float(wind) / except: wind = 0
FloatOrZero(wind) == IF Float(wind).t = "raise" THEN Num(0) ELSE Float(wind)

\* x > limit on floats: false for NaN
Exceeds(x, limit) == x.t = "num" /\ x.v > limit

\* evaluate with the wind test written `wind >= 12`
evaluate_AtLimit(wind, al, b) ==
    IF al THEN [status |-> "NOT SUITABLE", color |-> "RED"]
    ELSE IF FloatOrZero(wind).t = "num" /\ FloatOrZero(wind).v >= WindLimit
         THEN [status |-> "CAUTION", color |-> "YELLOW"]
    ELSE IF Contains(b, Marina)
         THEN [status |-> "CAUTION", color |-> "YELLOW"]
    ELSE [status |-> "SUITABLE", color |-> "GREEN"]

evaluate(wind, al, b) ==
    IF al THEN [status |-> "NOT SUITABLE", color |-> "RED"]
    ELSE IF Exceeds(FloatOrZero(wind), WindLimit)
         THEN [status |-> "CAUTION", color |-> "YELLOW"]
    ELSE IF Contains(b, Marina)
         THEN [status |-> "CAUTION", color |-> "YELLOW"]
    ELSE [status |-> "SUITABLE", color |-> "GREEN"]

-----------------------------------------------------------------------------
(* Encyclopedia details *)

\* "Scenic coastal destination"
DefaultFamousFor ==
    <<"S","c","e","n","i","c"," ","c","o","a","s","t","a","l"," ","d","e",
      "s","t","i","n","a","t","i","o","n">>

\* "Local shoreline"
DefaultHotspot ==
    <<"L","o","c","a","l"," ","s","h","o","r","e","l","i","n","e">>

\* "Follow local advisories"
DefaultRule1 ==
    <<"F","o","l","l","o","w"," ","l","o","c","a","l"," ","a","d","v","i",
      "s","o","r","i","e","s">>

\* "Avoid swimming during rough sea"
DefaultRule2 ==
    <<"A","v","o","i","d"," ","s","w","i","m","m","i","n","g"," ","d","u",
      "r","i","n","g"," ","r","o","u","g","h"," ","s","e","a">>

\* "Morning and evening hours"
DefaultBestTime ==
    <<"M","o","r","n","i","n","g"," ","a","n","d"," ","e","v","e","n","i",
      "n","g"," ","h","o","u","r","s">>

\* "October to March"
MonsoonBestTime ==
    <<"O","c","t","o","b","e","r"," ","t","o"," ","M","a","r","c","h">>

DefaultDetails ==
    [famous_for |-> DefaultFamousFor,
     hotspots |-> <<DefaultHotspot>>,
     safety_rules |-> <<DefaultRule1, DefaultRule2>>,
     best_time |-> DefaultBestTime]

MaxParagraphs == 4
MaxHotspots == 3
MaxRules == 4

HotspotWords == {<<"l","i","g","h","t","h","o","u","s","e">>,
                 <<"p","r","o","m","e","n","a","d","e">>,
                 <<"t","o","u","r","i","s","t">>}
RuleWords == {<<"s","w","i","m">>, <<"c","u","r","r","e","n","t">>,
              <<"u","n","s","a","f","e">>}
Monsoon == <<"m","o","n","s","o","o","n">>

\* the body of `for para in p`
ScanParagraph(d, para) ==
    LET t == Lower(para)
        d1 == IF \E w \in HotspotWords : Contains(t, w)
              THEN [d EXCEPT !.hotspots = Append(@, FirstSentence(para))]
              ELSE d
        d2 == IF \E w \in RuleWords : Contains(t, w)
              THEN [d1 EXCEPT !.safety_rules = Append(@, FirstSentence(para))]
              ELSE d1
    IN  IF Contains(t, Monsoon)
        THEN [d2 EXCEPT !.best_time = MonsoonBestTime] ELSE d2

RECURSIVE ScanParagraphs(_, _)
ScanParagraphs(d, p) ==
    IF p = <<>> THEN d
    ELSE ScanParagraphs(ScanParagraph(d, Head(p)), Tail(p))

\* crawl_beach_details: resp is [t |-> "exc"] (requests.get or the parser
\* raised) or [t |-> "ok", code |-> the HTTP status, paras |-> the texts of
\* the page's <p> elements].  The status is not read.
crawl_beach_details(resp) ==
    IF resp.t = "exc" THEN DefaultDetails
    ELSE LET p == Take(resp.paras, MaxParagraphs)
             d == IF p # <<>>
                  THEN [DefaultDetails EXCEPT !.famous_for = FirstSentence(p[1])]
                  ELSE DefaultDetails
         IN  ScanParagraphs(d, p)

-----------------------------------------------------------------------------
(* Text generation *)

\* `if not GROQ_API_KEY`
HasKey(k) == Truthy(k)

\* groq_rewrite without the status test of line 158
groq_result_AnyStatus(resp) ==
    IF resp.t = "exc" THEN None
    ELSE IF resp.content.t = "absent" THEN None
    ELSE resp.content

\* groq_rewrite past the credential test: resp is [t |-> "exc"] or
\* [t |-> "ok", code |-> the HTTP status, content |-> choices[0].message.content
\* of the JSON body, Absent when the body does not have it]
groq_result(resp) ==
    IF resp.t = "exc" THEN None
    ELSE IF resp.code # 200 THEN None
    ELSE IF resp.content.t = "absent" THEN None
    ELSE resp.content

groq_rewrite(k, resp) == IF ~HasKey(k) THEN None ELSE groq_result(resp)

-----------------------------------------------------------------------------
(* The requests and the collaborators' answers that are explored *)

Unset == [t |-> "unset"]
Exc == [t |-> "exc"]                  \* the call raised: unreachable, timeout,
                                      \* or a body that is not JSON
Obj(f) == [t |-> "obj", field |-> f]  \* a JSON object; f is the value of the
                                      \* endpoint's key ("question"/"message")

Questions == {
    <<>>,
    <<" ">>,
    <<"M","a","r","i","n","a">>,
    <<"G","o","a"," ","B","e","a","c","h">>,
    <<"p","u","r","i"," ","b","e","a","c","h"," ","s","a","f","e","t","y">>,
    <<"x","y","z">> }

Bodies ==
    {None, List(0), List(1), Obj(Absent), Obj(None), Obj(Num(5))}
        \cup {Obj(Str(q)) : q \in Questions}

Keys == {None, Str(<<>>), Str(<<"k">>)}

GeoAnswers == {
    Exc,
    [t |-> "ok", r |-> <<>>],
    [t |-> "ok", r |-> <<[lat |-> Absent, lon |-> Absent]>>],
    [t |-> "ok", r |-> <<[lat |-> Str(<<"0">>),
                          lon |-> Str(<<"7","7","2","0","0","0">>)]>>],
    [t |-> "ok", r |-> <<[lat |-> Str(<<"1","1","3","0","0","0">>),
                          lon |-> Str(<<"7","7","2","0","0","0">>)]>>] }

Forecast(temp, wind, tmin, tmax) ==
    [t |-> "ok",
     d |-> [temperature |-> temp, windspeed |-> wind, tmin |-> tmin, tmax |-> tmax]]

WeatherAnswers == {
    Exc,
    Forecast(Num(30), Num(5), <<Num(25)>>, <<Num(32)>>),
    Forecast(Num(30), Num(12), <<Num(25), Num(24)>>, <<Num(32), Num(31)>>),
    Forecast(Num(28), Num(13), <<Num(25)>>, <<Num(32)>>),
    Forecast(Num(30), None, <<Num(25)>>, <<Num(32)>>),
    Forecast(Num(30), Absent, <<Num(25)>>, <<Num(32)>>),
    Forecast(Num(30), Num(13), <<Num(25)>>, <<>>) }

AlertAnswers == {
    Exc,
    [t |-> "ok", text |-> <<"N","o"," ","t","h","r","e","a","t">>],
    [t |-> "ok", text |-> <<"T","s","u","n","a","m","i"," ","W","a","r","n",
                            "i","n","g"," ","i","s","s","u","e","d">>] }

ParaPlain == <<"P","l","a","i","n"," ","f","a","c","t","."," ","E","t","c">>
ParaTourist ==
    <<"A"," ","t","o","u","r","i","s","t"," ","p","r","o","m","e","n","a","d",
      "e","."," ","M","o","r","e">>
ParaSwim ==
    <<"U","n","s","a","f","e"," ","t","o"," ","s","w","i","m","."," ","S","t",
      "r","o","n","g"," ","c","u","r","r","e","n","t">>
ParaMonsoon == <<"M","o","n","s","o","o","n"," ","r","a","i","n">>
ParaLighthouse == <<"A"," ","l","i","g","h","t","h","o","u","s","e">>
ParaNoArticle ==
    <<"N","o"," ","a","r","t","i","c","l","e"," ","w","i","t","h"," ","t","h",
      "i","s"," ","n","a","m","e","."," ","S","e","a","r","c","h">>

Page(code, paras) == [t |-> "ok", code |-> code, paras |-> paras]

WikiAnswers == {
    Exc,
    Page(200, <<>>),
    Page(200, <<ParaPlain>>),
    Page(200, <<ParaTourist, ParaSwim, ParaSwim, ParaTourist, ParaMonsoon>>),
    Page(200, <<ParaMonsoon, ParaLighthouse, ParaSwim>>),
    Page(404, <<>>),
    Page(404, <<ParaNoArticle>>) }

Completion(code, content) == [t |-> "ok", code |-> code, content |-> content]

GroqAnswers == {
    Exc,
    Completion(500, Str(<<"e","r","r">>)),
    Completion(200, Absent),
    Completion(200, Str(<<>>)),
    Completion(200, Str(<<"H","i">>)) }

-----------------------------------------------------------------------------
(* The handlers *)

Reply(json) == [code |-> 200, json |-> json]
\* an exception that leaves the view: Flask answers 500
Crash == [code |-> 500, json |-> [detail |-> "Internal Server Error"]]
Preflight == [code |-> 200, json |-> [preflight |-> TRUE]]

Call(svc) == [ev |-> "call", svc |-> svc]
Return(svc) == [ev |-> "return", svc |-> svc]
Called(svc) == \E i \in 1..Len(calls) : calls[i] = Call(svc)

\* `if lat`: the test of lines 202 / 274 with its `not` dropped
NoLocation_Inverted(la) == Truthy(la)

\* `if not lat`
NoLocation(la) == ~Truthy(la)

\* the f-string of lines 218-238, as the values it interpolates
AskText(b, v, w, d) ==
    [t |-> "template", title |-> Title(b), status |-> v.status,
     temp |-> w.temp, min |-> w.min, max |-> w.max, wind |-> w.wind,
     famous_for |-> d.famous_for,
     hotspots |-> Take(d.hotspots, MaxHotspots),
     safety_rules |-> Take(d.safety_rules, MaxRules),
     best_time |-> d.best_time]

\* base_reply of lines 282-286, as the values it interpolates
ChatText(b, v, w) ==
    [t |-> "template", title |-> Title(b), status |-> v.status,
     temp |-> w.temp, wind |-> w.wind]

\* lines 243-251
AskPayload(ai) ==
    [answer |-> IF Truthy(ai) THEN ai ELSE text,
     sources |-> <<"Wikipedia", "Open-Meteo Weather", "INCOIS">>,
     beach |-> Title(beach), status |-> verdict.status, color |-> verdict.color,
     lat |-> lat, lon |-> lon]

\* lines 205-210
AskFallback(ai) ==
    IF Truthy(ai)
    THEN [answer |-> ai, sources |-> <<"AI Knowledge Base">>]
    ELSE [error |-> "Unable to locate this beach in India. Please try a specific beach name."]

\* lines 289-304
ChatPayload(ai) ==
    [beach |-> Title(beach), status |-> verdict.status, color |-> verdict.color,
     weather |-> weather, lat |-> lat, lon |-> lon,
     water_details |-> "Baseline coastal water quality (NWMP) with current weather check",
     famous_for |-> details.famous_for,
     hotspots |-> Take(details.hotspots, MaxHotspots),
     safety_rules |-> Take(details.safety_rules, MaxRules),
     best_time |-> details.best_time,
     reply |-> IF Truthy(ai) THEN ai ELSE text]

Finish(r) ==
    /\ response' = r
    /\ pc' = "done"

\* /ask up to the location lookup (lines 177-199)
Ask ==
    /\ pc = "start" /\ route = "ask"
    /\ UNCHANGED <<method, route, body, key, inflight, calls, got, lat, lon,
                   weather, alert, verdict, details, text, arg, ret>>
    /\ IF method = "OPTIONS"
       THEN Finish(Preflight) /\ UNCHANGED <<question, beach>>
       ELSE IF ~Truthy(body)
       THEN /\ Finish(Reply([error |-> "Please enter a question about a beach"]))
            /\ UNCHANGED <<question, beach>>
       ELSE IF body.t # "obj" \/ body.field.t # "str"
       THEN Finish(Crash) /\ UNCHANGED <<question, beach>>
       ELSE IF Strip(body.field.s) = <<>>
       THEN /\ Finish(Reply([error |-> "Please enter a question about a beach"]))
            /\ UNCHANGED <<question, beach>>
       ELSE /\ question' = Strip(body.field.s)
            /\ beach' = ResolveBeach(Strip(body.field.s))
            /\ pc' = "geocode"
            /\ UNCHANGED response

\* /chat up to the location lookup (lines 257-271)
Chat ==
    /\ pc = "start" /\ route = "chat"
    /\ UNCHANGED <<method, route, body, key, inflight, calls, got, lat, lon,
                   weather, alert, verdict, details, text, arg, ret>>
    /\ IF method = "OPTIONS"
       THEN Finish(Preflight) /\ UNCHANGED <<question, beach>>
       ELSE IF body.t # "obj"
       THEN Finish(Crash) /\ UNCHANGED <<question, beach>>
       ELSE IF body.field.t \notin {"absent", "str"}
       THEN Finish(Crash) /\ UNCHANGED <<question, beach>>
       ELSE LET msg == IF body.field.t = "absent" THEN <<>>
                       ELSE Strip(Lower(body.field.s))
            IN  IF msg = <<>>
                THEN /\ Finish(Reply([error |-> "Please enter a beach name"]))
                     /\ UNCHANGED <<question, beach>>
                ELSE /\ question' = msg
                     /\ beach' = WithBeach(msg)
                     /\ pc' = "geocode"
                     /\ UNCHANGED response

\* get_coordinates(beach) is an argument of BEACH_COORDS.get: it is evaluated,
\* and the request sent, before the table is read (lines 201, 273; line 44)
CallGeocode ==
    /\ pc = "geocode" /\ inflight = "none"
    /\ inflight' = "geocode"
    /\ calls' = Append(calls, Call("geocode"))
    /\ UNCHANGED <<method, route, body, key, pc, got, beach, question, lat, lon,
                   weather, alert, verdict, details, text, response, arg, ret>>

\* lines 201-202 / 273-275
ReturnGeocode ==
    /\ pc = "geocode" /\ inflight = "geocode"
    /\ \E a \in GeoAnswers :
        LET c == Lookup(beach, get_coordinates(a)) IN
        /\ got' = [got EXCEPT !.geo = a]
        /\ lat' = c[1]
        /\ lon' = c[2]
        /\ IF NoLocation(c[1])
           THEN IF route = "ask"
                THEN pc' = "rewrite" /\ UNCHANGED response
                ELSE Finish(Reply([error |-> "Unable to locate this beach in India"]))
           ELSE pc' = "weather" /\ UNCHANGED response
    /\ inflight' = "none"
    /\ calls' = Append(calls, Return("geocode"))
    /\ UNCHANGED <<method, route, body, key, beach, question, weather, alert,
                   verdict, details, text, arg, ret>>

\* lines 212 / 277; line 62
CallWeather ==
    /\ pc = "weather" /\ inflight = "none"
    /\ inflight' = "weather"
    /\ calls' = Append(calls, Call("weather"))
    /\ UNCHANGED <<method, route, body, key, pc, got, beach, question, lat, lon,
                   weather, alert, verdict, details, text, response, arg, ret>>

\* the weather step, asking again when the call raised
ReturnWeather_Retry ==
    /\ pc = "weather" /\ inflight = "weather"
    /\ \E a \in WeatherAnswers :
        /\ got' = [got EXCEPT !.wx = a]
        /\ weather' = get_weather(a)
        /\ pc' = IF a.t = "exc" THEN "weather" ELSE "alert"
    /\ inflight' = "none"
    /\ calls' = Append(calls, Return("weather"))
    /\ UNCHANGED <<method, route, body, key, beach, question, lat, lon, alert,
                   verdict, details, text, response, arg, ret>>

ReturnWeather ==
    /\ pc = "weather" /\ inflight = "weather"
    /\ \E a \in WeatherAnswers :
        /\ got' = [got EXCEPT !.wx = a]
        /\ weather' = get_weather(a)
    /\ pc' = "alert"
    /\ inflight' = "none"
    /\ calls' = Append(calls, Return("weather"))
    /\ UNCHANGED <<method, route, body, key, beach, question, lat, lon, alert,
                   verdict, details, text, response, arg, ret>>

\* lines 213 / 278; line 77
CallAlert ==
    /\ pc = "alert" /\ inflight = "none"
    /\ inflight' = "alert"
    /\ calls' = Append(calls, Call("alert"))
    /\ UNCHANGED <<method, route, body, key, pc, got, beach, question, lat, lon,
                   weather, alert, verdict, details, text, response, arg, ret>>

\* lines 213-214 / 278-279
ReturnAlert ==
    /\ pc = "alert" /\ inflight = "alert"
    /\ \E a \in AlertAnswers :
        /\ got' = [got EXCEPT !.alert = a]
        /\ alert' = has_alert(a)
        /\ verdict' = evaluate(weather.wind, has_alert(a), beach)
    /\ pc' = "detail"
    /\ inflight' = "none"
    /\ calls' = Append(calls, Return("alert"))
    /\ UNCHANGED <<method, route, body, key, beach, question, lat, lon, weather,
                   details, text, response, arg, ret>>

\* lines 215 / 280; line 110
CallDetail ==
    /\ pc = "detail" /\ inflight = "none"
    /\ inflight' = "detail"
    /\ calls' = Append(calls, Call("detail"))
    /\ UNCHANGED <<method, route, body, key, pc, got, beach, question, lat, lon,
                   weather, alert, verdict, details, text, response, arg, ret>>

\* lines 215-238 / 280-286
ReturnDetail ==
    /\ pc = "detail" /\ inflight = "detail"
    /\ \E a \in WikiAnswers :
        /\ got' = [got EXCEPT !.wiki = a]
        /\ details' = crawl_beach_details(a)
        /\ text' = IF route = "ask"
                   THEN AskText(beach, verdict, weather, crawl_beach_details(a))
                   ELSE ChatText(beach, verdict, weather)
    /\ pc' = "rewrite"
    /\ inflight' = "none"
    /\ calls' = Append(calls, Return("detail"))
    /\ UNCHANGED <<method, route, body, key, beach, question, lat, lon, weather,
                   alert, verdict, response, arg, ret>>

\* the JSON the handler returns once groq_rewrite has given ai
Answer(ai) ==
    IF NoLocation(lat) THEN AskFallback(ai)
    ELSE IF route = "ask" THEN AskPayload(ai)
    ELSE ChatPayload(ai)

\* groq_rewrite without a credential: line 135, no request is sent
SkipRewrite ==
    /\ pc = "rewrite" /\ inflight = "none"
    /\ ~HasKey(key)
    /\ Finish(Reply(Answer(groq_rewrite(key, Unset))))
    /\ UNCHANGED <<method, route, body, key, inflight, calls, got, beach,
                   question, lat, lon, weather, alert, verdict, details, text,
                   arg, ret>>

\* lines 204 / 241 / 288; line 140
CallGroq ==
    /\ pc = "rewrite" /\ inflight = "none"
    /\ HasKey(key)
    /\ inflight' = "groq"
    /\ calls' = Append(calls, Call("groq"))
    /\ UNCHANGED <<method, route, body, key, pc, got, beach, question, lat, lon,
                   weather, alert, verdict, details, text, response, arg, ret>>

\* lines 158-164, then the handler's return
ReturnGroq ==
    /\ pc = "rewrite" /\ inflight = "groq"
    /\ \E a \in GroqAnswers :
        /\ got' = [got EXCEPT !.groq = a]
        /\ Finish(Reply(Answer(groq_rewrite(key, a))))
    /\ inflight' = "none"
    /\ calls' = Append(calls, Return("groq"))
    /\ UNCHANGED <<method, route, body, key, beach, question, lat, lon, weather,
                   alert, verdict, details, text, arg, ret>>

\* one request, as Flask hands it to the view
Init ==
    /\ method \in {"POST", "OPTIONS"}
    /\ route \in {"ask", "chat"}
    /\ body \in Bodies
    /\ method = "OPTIONS" => body = None
    /\ key \in Keys
    /\ pc = "start"
    /\ inflight = "none"
    /\ calls = <<>>
    /\ got = [geo |-> Unset, wx |-> Unset, alert |-> Unset, wiki |-> Unset,
              groq |-> Unset]
    /\ beach = <<>>
    /\ question = <<>>
    /\ lat = None
    /\ lon = None
    /\ weather = Unset
    /\ alert = FALSE
    /\ verdict = Unset
    /\ details = Unset
    /\ text = Unset
    /\ response = Unset
    /\ arg = Unset
    /\ ret = <<>>

Next ==
    \/ Ask
    \/ Chat
    \/ CallGeocode
    \/ ReturnGeocode
    \/ CallWeather
    \/ ReturnWeather
    \/ CallAlert
    \/ ReturnAlert
    \/ CallDetail
    \/ ReturnDetail
    \/ SkipRewrite
    \/ CallGroq
    \/ ReturnGroq

Spec == Init /\ [][Next]_vars

-----------------------------------------------------------------------------
(* evaluate applied alone, to every combination of a bounded set of inputs *)

MaxWind == 14

WindValues ==
    {Num(n) : n \in -1..MaxWind}
        \cup {NA, None, NaN, List(0), Str(<<>>), Str(<<"1","5">>),
              Str(<<" ","7"," ">>), Str(<<"N","a","N">>)}

EvalNames == {
    <<>>,
    MarinaBeach,
    GoaBeach,
    <<"m","a","r","i","n"," ","b","e","a","c","h">>,
    <<"t","h","e"," ","m","a","r","i","n","a">>,
    <<"M","a","r","i","n","a"," ","B","e","a","c","h">> }

\* the request variables of a run in which no request is handled
Idle ==
    /\ method = "POST" /\ route = "ask" /\ body = None /\ key = None
    /\ pc = "idle" /\ inflight = "none" /\ calls = <<>>
    /\ got = [geo |-> Unset, wx |-> Unset, alert |-> Unset, wiki |-> Unset,
              groq |-> Unset]
    /\ beach = <<>> /\ question = <<>> /\ lat = None /\ lon = None
    /\ weather = Unset /\ alert = FALSE /\ verdict = Unset /\ details = Unset
    /\ text = Unset /\ response = Unset

InitEval ==
    /\ Idle
    /\ arg \in {[t |-> "evaluate", wind |-> w, alert |-> a, beach |-> b] :
                    w \in WindValues, a \in BOOLEAN, b \in EvalNames}
    /\ ret = <<>>

Evaluate ==
    /\ arg.t = "evaluate" /\ ret = <<>>
    /\ ret' = <<evaluate(arg.wind, arg.alert, arg.beach)>>
    /\ UNCHANGED <<reqVars, arg>>

NextEval == Evaluate

SpecEval == InitEval /\ [][NextEval]_vars

-----------------------------------------------------------------------------
(* The resolver applied to a text, and again to its own result *)

MaxLen == 4

ResolveAlphabet == {"i", "s", "S", " ", "m", "e"}

SampleTexts == {
    <<"b","e","a","c","h","o","t","s","p","o","t","s">>,
    <<"T","e","l","l"," ","m","e"," ","a","b","o","u","t"," ","G","o","a"," ",
      "B","e","a","c","h">>,
    <<"W","h","a","t"," ","i","s"," ","t","h","e"," ","s","a","f","e","t","y",
      " ","a","t"," ","P","u","r","i">> }

Texts ==
    SampleTexts \cup UNION {[1..n -> ResolveAlphabet] : n \in 0..MaxLen}

InitResolve ==
    /\ Idle
    /\ arg \in {[t |-> "resolve", text |-> x] : x \in Texts}
    /\ ret = <<>>

\* line 187 and lines 189-199 on the text
ResolveOnce ==
    /\ arg.t = "resolve" /\ ret = <<>>
    /\ Strip(arg.text) # <<>>
    /\ ret' = <<ResolveBeach(Strip(arg.text))>>
    /\ UNCHANGED <<reqVars, arg>>

\* lines 193-199 on the name they produced
ResolveAgain ==
    /\ arg.t = "resolve" /\ Len(ret) = 1
    /\ ret' = Append(ret, ResolveBeach(ret[1]))
    /\ UNCHANGED <<reqVars, arg>>

NextResolve == ResolveOnce \/ ResolveAgain

SpecResolve == InitResolve /\ [][NextResolve]_vars

-----------------------------------------------------------------------------
(* Properties *)

Red == [status |-> "NOT SUITABLE", color |-> "RED"]
Yellow == [status |-> "CAUTION", color |-> "YELLOW"]
Green == [status |-> "SUITABLE", color |-> "GREEN"]

\* C1: evaluate returns the four-rule priority table: RED when the alert flag
\* is set, whatever the wind and the name; otherwise YELLOW when the wind (0
\* when it does not read as a number) is above 12; otherwise YELLOW when the
\* name contains "marina"; otherwise GREEN.
C1_PriorityTable ==
    (arg.t = "evaluate" /\ ret # <<>>) =>
        LET w == Float(arg.wind)
            over == w.t = "num" /\ w.v > 12
            named == Contains(arg.beach, <<"m","a","r","i","n","a">>)
        IN  /\ arg.alert => ret[1] = Red
            /\ (~arg.alert /\ over) => ret[1] = Yellow
            /\ (~arg.alert /\ ~over /\ named) => ret[1] = Yellow
            /\ (~arg.alert /\ ~over /\ ~named) => ret[1] = Green

\* evaluate has answered RED for an alert with wind above 12 at a marina name
C1_Witness ==
    /\ arg.t = "evaluate" /\ ret # <<>>
    /\ arg.alert /\ arg.wind = Num(13) /\ arg.beach = MarinaBeach
    /\ ret[1] = Red

\* the geocoding service failed or found nothing, for a name off the table
Unresolved ==
    /\ got.geo.t # "unset"
    /\ beach \notin DOMAIN BEACH_COORDS
    /\ \/ got.geo.t = "exc"
       \/ (got.geo.t = "ok" /\ got.geo.r = <<>>)
       \/ (got.geo.t = "ok" /\ got.geo.r # <<>> /\ got.geo.r[1].lat.t = "absent")

\* the text-generation service answered 200 with a non-empty text
GroqAnswered ==
    /\ got.groq.t = "ok" /\ got.groq.code = 200
    /\ got.groq.content.t = "str" /\ got.groq.content.s # <<>>

\* C2 as stated: a request whose beach cannot be resolved ends with an error
\* field in the response, and calls neither the weather service nor the alert
\* bulletin.
C2_ErrorField ==
    (pc = "done" /\ Unresolved) =>
        /\ "error" \in DOMAIN response.json
        /\ ~Called("weather") /\ ~Called("alert")

\* C2 as amended: a request whose beach cannot be resolved never calls the
\* weather service or the alert bulletin; its response carries an error
\* field, except on /ask when the text-generation fallback answers with a
\* non-empty text, which is then returned as {answer, sources} with no error
\* field.
C2_ErrorOrFallback ==
    Unresolved =>
        /\ ~Called("weather") /\ ~Called("alert")
        /\ pc = "done" =>
            IF route = "ask" /\ GroqAnswered
            THEN response = Reply([answer |-> got.groq.content,
                                   sources |-> <<"AI Knowledge Base">>])
            ELSE /\ response.code = 200
                 /\ "error" \in DOMAIN response.json

\* an unresolved /ask request has been answered by the fallback
C2_Witness ==
    /\ pc = "done" /\ Unresolved /\ route = "ask" /\ GroqAnswered
    /\ "error" \notin DOMAIN response.json

\* C3: applying the resolver to its own output yields that same output.
C3_Idempotent == (arg.t = "resolve" /\ Len(ret) = 2) => ret[2] = ret[1]

\* C4: every POST to /ask and /chat ends in HTTP 200 with an error body or a
\* populated payload, whatever the body and the collaborators' answers.
C4_Always200 ==
    (pc = "done" /\ method = "POST") =>
        /\ response.code = 200
        /\ \/ "error" \in DOMAIN response.json
           \/ "answer" \in DOMAIN response.json
           \/ "reply" \in DOMAIN response.json

\* the weather call raised, or its answer lacks something get_weather reads
WeatherFailed ==
    \/ got.wx.t = "exc"
    \/ /\ got.wx.t = "ok"
       /\ \/ got.wx.d.temperature.t = "absent"
          \/ got.wx.d.windspeed.t = "absent"
          \/ got.wx.d.tmin = <<>>
          \/ got.wx.d.tmax = <<>>

IsNA(v) == v.t = "str" /\ v.s = <<"N","/","A">>

\* C5: the weather structure always has its four fields, all of them "N/A"
\* or none; after a failed weather call all four are "N/A" and the request
\* still ends in a populated, non-error response built from them.
C5_WeatherSentinel ==
    got.wx.t # "unset" =>
        /\ DOMAIN weather = {"temp", "wind", "min", "max"}
        /\ \/ \A f \in DOMAIN weather : IsNA(weather[f])
           \/ \A f \in DOMAIN weather : ~IsNA(weather[f])
        /\ WeatherFailed => \A f \in DOMAIN weather : IsNA(weather[f])
        /\ (WeatherFailed /\ pc = "done") =>
            /\ response.code = 200
            /\ "error" \notin DOMAIN response.json
            /\ route = "chat" =>
                /\ DOMAIN response.json.weather = {"temp", "wind", "min", "max"}
                /\ \A f \in DOMAIN response.json.weather :
                        IsNA(response.json.weather[f])
            /\ (route = "ask" /\ response.json.answer.t = "template") =>
                /\ IsNA(response.json.answer.temp)
                /\ IsNA(response.json.answer.wind)
                /\ IsNA(response.json.answer.min)
                /\ IsNA(response.json.answer.max)

\* a /chat request has ended after a weather answer that lacked a field
C5_Witness ==
    /\ pc = "done" /\ route = "chat"
    /\ got.wx.t = "ok" /\ WeatherFailed
    /\ "reply" \in DOMAIN response.json

\* no credential, or the text-generation call raised or answered a status
\* other than 200
GroqFailed ==
    \/ ~Truthy(key)
    \/ got.groq.t = "exc"
    \/ (got.groq.t = "ok" /\ got.groq.code # 200)

\* C6: with a resolved location, when the text-generation call is unavailable,
\* raises, times out or answers a status other than 200, the text returned
\* (answer of /ask, reply of /chat) is the templated text; without a
\* credential no text-generation call is made.
C6_TemplatedText ==
    /\ ~Truthy(key) => ~Called("groq")
    /\ (pc = "done" /\ got.wiki.t # "unset" /\ GroqFailed) =>
        /\ route = "ask" =>
            /\ response.json.answer = text
            /\ text = AskText(beach, verdict, weather, details)
        /\ route = "chat" =>
            /\ response.json.reply = text
            /\ text = ChatText(beach, verdict, weather)

\* a located request has ended after the text-generation call answered 500
C6_Witness ==
    /\ pc = "done" /\ got.wiki.t # "unset"
    /\ got.groq.t = "ok" /\ got.groq.code = 500
    /\ route = "ask" /\ response.json.answer = text

\* C7: a name that is a key of the static table is never sent to the
\* geocoding service.
C7_TableFirst == beach \in DOMAIN BEACH_COORDS => ~Called("geocode")

\* the encyclopedia fetch raised, the parser raised, or the page is missing
LookupFailed ==
    \/ got.wiki.t = "exc"
    \/ (got.wiki.t = "ok" /\ got.wiki.code # 200)

\* C8: after a failed encyclopedia lookup the details are exactly the defaults.
C8_DefaultsOnFailure ==
    (got.wiki.t # "unset" /\ LookupFailed) => details = DefaultDetails

\* C9: when the bulletin fetch fails the alert flag is false and the verdict
\* is the one wind and name give, never (NOT SUITABLE, RED); the flag is true
\* only for a fetched page whose text contains "warning" in some casing.
C9_FailOpen ==
    got.alert.t # "unset" =>
        /\ got.alert.t = "exc" =>
            /\ alert = FALSE
            /\ verdict # Red
            /\ verdict \in {Yellow, Green}
            /\ verdict = Yellow <=>
                \/ (Float(weather.wind).t = "num" /\ Float(weather.wind).v > 12)
                \/ Contains(beach, <<"m","a","r","i","n","a">>)
        /\ alert = TRUE =>
            /\ got.alert.t = "ok"
            /\ Contains(Lower(got.alert.text), <<"w","a","r","n","i","n","g">>)

\* a request has ended YELLOW on wind after the bulletin fetch failed
C9_Witness ==
    /\ pc = "done" /\ got.alert.t = "exc"
    /\ weather.wind = Num(13) /\ verdict = Yellow
    /\ ~Contains(beach, <<"m","a","r","i","n","a">>)

Rank(svc) ==
    CASE svc = "geocode" -> 1
      [] svc = "weather" -> 2
      [] svc = "alert"   -> 3
      [] svc = "detail"  -> 4
      [] svc = "groq"    -> 5

\* C10: the calls of a request are issued in the order location, weather,
\* alert, detail, rewrite, each collaborator at most once, and a call is
\* issued only after the one before it has returned.
C10_SequentialCalls ==
    /\ \A i \in 1..Len(calls) :
        /\ i % 2 = 1 => calls[i].ev = "call"
        /\ i % 2 = 0 => calls[i] = Return(calls[i-1].svc)
    /\ \A i, j \in 1..Len(calls) :
        (i < j /\ calls[i].ev = "call" /\ calls[j].ev = "call")
            => Rank(calls[i].svc) < Rank(calls[j].svc)
    /\ inflight = "none" <=> Len(calls) % 2 = 0
    /\ inflight # "none" => calls[Len(calls)] = Call(inflight)

\* a request has ended having called all five collaborators
C10_Witness ==
    /\ pc = "done"
    /\ Len(calls) = 10
    /\ \A svc \in {"geocode", "weather", "alert", "detail", "groq"} : Called(svc)

====
